---- MODULE Spec2Model ----
(***************************************************************************)
(* A model of src/generate_tct_gif.py: the JSON colouring scan and the     *)
(* wrap loop of draw_json_colored (SpecDraw), and the frame schedule of    *)
(* main / generate_animation / create_frame (SpecAnim).                    *)
(*                                                                         *)
(* A Python str is a sequence of one-character strings; Python indices are *)
(* 0-based, the sequences here 1-based (json_str[i] in Python is           *)
(* json_str[i + 1] here).                                                  *)
(***************************************************************************)
EXTENDS Integers, Sequences, FiniteSets, TLC

VARIABLES
    \* ---- draw_json_colored ----
    pc,             \* "scan" | "wrap" | "done" ("idle" under SpecAnim)
    json_str,       \* the text being drawn
    x, y,           \* the top-left corner the caller passes
    max_width,      \* the width the caller passes
    idx,            \* 1-based position of the scan (Python i + 1)
    in_string, in_key, escape_next,
    current_text, current_color,
    segments,       \* list of (text, color)
    branch,         \* which branch the last loop iteration took (history)
    seg_idx,        \* 1-based position of the wrap loop
    cursor_x, cursor_y,
    drawn,          \* the draw.text calls made so far: (text, color, x, y)
    wrapped,        \* for each draw.text call, whether the line was wrapped before it (history)
    ret,            \* the returned height (0 until the function returns)
    \* ---- main, generate_animation, create_frame ----
    apc,            \* "decode" | "initial" | "token_frames" | "final" | "save" | "print"
                    \* | "exit0" | "crashed" ("idle" under SpecDraw)
    width,          \* args.width
    frame_duration, \* args.speed
    json_height,    \* what draw_json_colored returns for the input JSON at this width
    tokens,         \* list(tct.encode(args.json))
    decoded_states, \* list of (decoded, token)
    decode_calls,   \* the prefixes decode_prefix was called with (history)
    consumed,       \* main's local: the consumed count of the last decode_prefix call
                    \* (0 before the first; surplus, never read either, is left out)
    frames,         \* the frames create_frame has returned
    frame_i,        \* 1-based position of the loop over decoded_states
    output,         \* the file frames[0].save wrote: NoFile until it is written
    error           \* the exception that ended the program, NoError when none did

drawVars == <<pc, json_str, x, y, max_width, idx, in_string, in_key, escape_next,
              current_text, current_color, segments, branch, seg_idx,
              cursor_x, cursor_y, drawn, wrapped, ret>>

animVars == <<apc, width, frame_duration, json_height, tokens, decoded_states,
              decode_calls, consumed, frames, frame_i, output, error>>

vars == <<drawVars, animVars>>

NoFile == [written |-> FALSE]
NoError == [type |-> "none", line |-> 0]

\* the state of main's variables while draw_json_colored is studied alone
AnimIdle ==
    /\ apc = "idle"
    /\ width = 0
    /\ frame_duration = 0
    /\ json_height = 0
    /\ tokens = <<>>
    /\ decoded_states = <<>>
    /\ decode_calls = <<>>
    /\ consumed = 0
    /\ frames = <<>>
    /\ frame_i = 1
    /\ output = NoFile
    /\ error = NoError

-----------------------------------------------------------------------------
(* Bounds of the model *)

\* longest enumerated input text of draw_json_colored
MaxLen == 4

-----------------------------------------------------------------------------
(* Program constants *)

COLORS == [bg           |-> "#0d1117",
           text         |-> "#c9d1d9",
           text_dim     |-> "#8b949e",
           token        |-> "#58a6ff",
           token_bg     |-> "#21262d",
           json_key     |-> "#7ee787",
           json_value   |-> "#a5d6ff",
           json_bracket |-> "#ffa657",
           highlight    |-> "#f85149",
           progress     |-> "#238636",
           border       |-> "#30363d"]

padding == 25
line_height == 18
\* the continuation indent of a wrapped line
wrap_indent == 20
\* the advance of one character in the monospace font get_font returns
char_width == 8

DQ == "\""
BS == "\\"

-----------------------------------------------------------------------------
(* Inputs *)

Alphabet == {DQ, BS, ":", ",", "{", "a"}

\* {"a":"b"}
KeyValueExample == <<"{", DQ, "a", DQ, ":", DQ, "b", DQ, "}">>
\* {"a":"b\"c"}
EscapeExample == <<"{", DQ, "a", DQ, ":", DQ, "b", BS, DQ, "c", DQ, "}">>
\* {"a:b":"c"}  (a colon inside the first quoted run)
ColonInKeyExample == <<"{", DQ, "a", ":", "b", DQ, ":", DQ, "c", DQ, "}">>

\* 123456,789  (runs with no quote or bracket in them)
BareNumbersExample == <<"1", "2", "3", "4", "5", "6", ",", "7", "8", "9">>

Texts == (UNION {[1..n -> Alphabet] : n \in 0..MaxLen})
            \cup {KeyValueExample, EscapeExample, ColonInKeyExample,
                  BareNumbersExample}

\* max_width as create_frame passes it (width - 2 * padding), for narrow and
\* default canvases
MaxWidths == {8, 24, 40, 650}

-----------------------------------------------------------------------------
(* Helpers of draw_json_colored *)

\* json_str[i+1:], with i the 0-based index of the current character, which
\* is the 1-based position k here
Rest(s, k) == SubSeq(s, k + 1, Len(s))

\* str.find: the 0-based index of the first c in s, -1 when there is none
Find(s, c) ==
    IF \E k \in 1..Len(s) : s[k] = c
    THEN (CHOOSE k \in 1..Len(s) : s[k] = c /\ \A j \in 1..(k - 1) : s[j] # c) - 1
    ELSE -1

\* line 244
IsKey(rest) ==
    LET colon_pos == Find(rest, ":")
        quote_pos == Find(rest, DQ)
    IN  colon_pos # -1 /\ (quote_pos = -1 \/ colon_pos < quote_pos + 1)

flush_segment_DropsShort(segs, text, color) ==
    IF Len(text) > 1 THEN Append(segs, [text |-> text, color |-> color]) ELSE segs

\* flush_segment, as a function of the accumulator's state
flush_segment(segs, text, color) ==
    IF text # <<>> THEN Append(segs, [text |-> text, color |-> color]) ELSE segs

\* draw.textbbox((0, 0), text, font)[2] - [0] for a monospace font
text_width(text) == char_width * Len(text)

Char == json_str[idx]

ScanStep == pc = "scan" /\ idx <= Len(json_str)

DrawInit ==
    /\ AnimIdle
    /\ pc = "scan"
    /\ json_str \in Texts
    /\ x = padding
    /\ y = padding + 35 + 15 + 22
    /\ max_width \in MaxWidths
    /\ idx = 1
    /\ in_string = FALSE
    /\ in_key = FALSE
    /\ escape_next = FALSE
    /\ current_text = <<>>
    /\ current_color = COLORS.text
    /\ segments = <<>>
    /\ branch = "none"
    /\ seg_idx = 1
    /\ cursor_x = x
    /\ cursor_y = y
    /\ drawn = <<>>
    /\ wrapped = <<>>
    /\ ret = 0

wrapVars == <<seg_idx, cursor_x, cursor_y, drawn, wrapped, ret>>
argVars == <<json_str, x, y, max_width>>

ScanEscaped_BackslashReescapes ==
    /\ ScanStep
    /\ escape_next
    /\ current_text' = Append(current_text, Char)
    /\ escape_next' = (Char = BS)
    /\ idx' = idx + 1
    /\ branch' = "escaped"
    /\ UNCHANGED <<pc, in_string, in_key, current_color, segments>>
    /\ UNCHANGED <<argVars, wrapVars, animVars>>

\* lines 227-230
ScanEscaped ==
    /\ ScanStep
    /\ escape_next
    /\ current_text' = Append(current_text, Char)
    /\ escape_next' = FALSE
    /\ idx' = idx + 1
    /\ branch' = "escaped"
    /\ UNCHANGED <<pc, in_string, in_key, current_color, segments>>
    /\ UNCHANGED <<argVars, wrapVars, animVars>>

ScanBackslash_NoEscape ==
    /\ ScanStep
    /\ ~escape_next
    /\ Char = BS
    /\ current_text' = Append(current_text, Char)
    /\ idx' = idx + 1
    /\ branch' = "backslash"
    /\ UNCHANGED <<pc, in_string, in_key, escape_next, current_color, segments>>
    /\ UNCHANGED <<argVars, wrapVars, animVars>>

\* lines 232-235
ScanBackslash ==
    /\ ScanStep
    /\ ~escape_next
    /\ Char = BS
    /\ escape_next' = TRUE
    /\ current_text' = Append(current_text, Char)
    /\ idx' = idx + 1
    /\ branch' = "backslash"
    /\ UNCHANGED <<pc, in_string, in_key, current_color, segments>>
    /\ UNCHANGED <<argVars, wrapVars, animVars>>

\* lines 237-246
ScanOpenQuote ==
    /\ ScanStep
    /\ ~escape_next
    /\ Char = DQ
    /\ ~in_string
    /\ segments' = flush_segment(segments, current_text, current_color)
    /\ in_string' = TRUE
    /\ in_key' = IsKey(Rest(json_str, idx))
    /\ current_color' = IF in_key' THEN COLORS.json_key ELSE COLORS.json_value
    /\ current_text' = <<Char>>
    /\ idx' = idx + 1
    /\ branch' = "open"
    /\ UNCHANGED <<pc, escape_next>>
    /\ UNCHANGED <<argVars, wrapVars, animVars>>

\* lines 247-252
ScanCloseQuote ==
    /\ ScanStep
    /\ ~escape_next
    /\ Char = DQ
    /\ in_string
    /\ segments' = flush_segment(segments, Append(current_text, Char), current_color)
    /\ current_text' = <<>>
    /\ in_string' = FALSE
    /\ in_key' = FALSE
    /\ current_color' = COLORS.text
    /\ idx' = idx + 1
    /\ branch' = "close"
    /\ UNCHANGED <<pc, escape_next>>
    /\ UNCHANGED <<argVars, wrapVars, animVars>>

\* lines 253-258
ScanBracket ==
    /\ ScanStep
    /\ ~escape_next
    /\ Char \in {"{", "}", "[", "]"}
    /\ segments' = flush_segment(flush_segment(segments, current_text, current_color),
                                 <<Char>>, COLORS.json_bracket)
    /\ current_text' = <<>>
    /\ current_color' = COLORS.text
    /\ idx' = idx + 1
    /\ branch' = "bracket"
    /\ UNCHANGED <<pc, in_string, in_key, escape_next>>
    /\ UNCHANGED <<argVars, wrapVars, animVars>>

ScanPunctuation_InString ==
    /\ ScanStep
    /\ ~escape_next
    /\ Char \in {":", ","}
    /\ segments' = flush_segment(flush_segment(segments, current_text, current_color),
                                 <<Char>>, COLORS.text_dim)
    /\ current_text' = <<>>
    /\ current_color' = COLORS.text
    /\ idx' = idx + 1
    /\ branch' = "punctuation"
    /\ UNCHANGED <<pc, in_string, in_key, escape_next>>
    /\ UNCHANGED <<argVars, wrapVars, animVars>>

\* lines 259-264
ScanPunctuation ==
    /\ ScanStep
    /\ ~escape_next
    /\ ~in_string
    /\ Char \in {":", ","}
    /\ segments' = flush_segment(flush_segment(segments, current_text, current_color),
                                 <<Char>>, COLORS.text_dim)
    /\ current_text' = <<>>
    /\ current_color' = COLORS.text
    /\ idx' = idx + 1
    /\ branch' = "punctuation"
    /\ UNCHANGED <<pc, in_string, in_key, escape_next>>
    /\ UNCHANGED <<argVars, wrapVars, animVars>>

\* lines 265-266
ScanOther ==
    /\ ScanStep
    /\ ~escape_next
    /\ Char \notin {BS, DQ, "{", "}", "[", "]"}
    /\ ~(~in_string /\ Char \in {":", ","})
    /\ current_text' = Append(current_text, Char)
    /\ idx' = idx + 1
    /\ branch' = "other"
    /\ UNCHANGED <<pc, in_string, in_key, escape_next, current_color, segments>>
    /\ UNCHANGED <<argVars, wrapVars, animVars>>

\* lines 268-273: the flush after the loop, and the start of the wrap loop
ScanEnd ==
    /\ pc = "scan"
    /\ idx > Len(json_str)
    /\ segments' = flush_segment(segments, current_text, current_color)
    /\ current_text' = <<>>
    /\ cursor_x' = x
    /\ cursor_y' = y
    /\ pc' = "wrap"
    /\ branch' = "end"
    /\ UNCHANGED <<idx, in_string, in_key, escape_next, current_color>>
    /\ UNCHANGED <<argVars, seg_idx, drawn, wrapped, ret, animVars>>

NeedWrap_NoMarginTest(cx, w) == cx + w > x + max_width

NeedWrap_PastIndent(cx, w) == cx + w > x + max_width /\ cx > x + wrap_indent

\* line 280
NeedWrap(cx, w) == cx + w > x + max_width /\ cx > x

NewLineX_NoIndent == x

\* line 281
NewLineX == x + wrap_indent

NewLineY_SameLine(cy) == cy

\* line 282
NewLineY(cy) == cy + line_height

\* lines 275-285: one iteration of the wrap loop
DrawSegment ==
    /\ pc = "wrap"
    /\ seg_idx <= Len(segments)
    /\ LET seg == segments[seg_idx]
           w == text_width(seg.text)
           wrap == NeedWrap(cursor_x, w)
           px == IF wrap THEN NewLineX ELSE cursor_x
           py == IF wrap THEN NewLineY(cursor_y) ELSE cursor_y
       IN  /\ drawn' = Append(drawn, [text |-> seg.text, color |-> seg.color,
                                      x |-> px, y |-> py])
           /\ wrapped' = Append(wrapped, wrap)
           /\ cursor_x' = px + w
           /\ cursor_y' = py
    /\ seg_idx' = seg_idx + 1
    /\ UNCHANGED <<pc, idx, in_string, in_key, escape_next, current_text,
                   current_color, segments, branch, ret>>
    /\ UNCHANGED <<argVars, animVars>>

DrawReturn_NoLineHeight ==
    /\ pc = "wrap"
    /\ seg_idx > Len(segments)
    /\ ret' = cursor_y - y
    /\ pc' = "done"
    /\ UNCHANGED <<idx, in_string, in_key, escape_next, current_text,
                   current_color, segments, branch, seg_idx, cursor_x, cursor_y,
                   drawn, wrapped>>
    /\ UNCHANGED <<argVars, animVars>>

\* line 287
DrawReturn ==
    /\ pc = "wrap"
    /\ seg_idx > Len(segments)
    /\ ret' = cursor_y - y + line_height
    /\ pc' = "done"
    /\ UNCHANGED <<idx, in_string, in_key, escape_next, current_text,
                   current_color, segments, branch, seg_idx, cursor_x, cursor_y,
                   drawn, wrapped>>
    /\ UNCHANGED <<argVars, animVars>>

DrawNext ==
    \/ ScanEscaped
    \/ ScanBackslash
    \/ ScanOpenQuote
    \/ ScanCloseQuote
    \/ ScanBracket
    \/ ScanPunctuation
    \/ ScanOther
    \/ ScanEnd
    \/ DrawSegment
    \/ DrawReturn

SpecDraw == DrawInit /\ [][DrawNext]_vars

-----------------------------------------------------------------------------
(* main, generate_animation and create_frame *)

\* Python's //, for a divisor that is not 0
PyFloorDiv(a, b) == IF b > 0 THEN a \div b ELSE (0 - a) \div (0 - b)

\* Python's %, for a divisor that is not 0
PyMod(a, b) == a - b * PyFloorDiv(a, b)

Max(a, b) == IF a >= b THEN a ELSE b

token_box_height == 28
token_spacing == 56
\* the gap between two rows of token boxes (line 114)
row_gap == 8
\* the final frame is held frame_duration * 3 (line 354)
final_hold == 3

\* line 108
tokens_per_row(w) == PyFloorDiv(w - 2 * padding, token_spacing)

Row_AlwaysFirst(i, tpr) == 0

\* line 111
Row(i, tpr) == PyFloorDiv(i, tpr)

Col_NoWrap(i, tpr) == i

\* line 112
Col(i, tpr) == PyMod(i, tpr)

\* line 154
num_rows(n, tpr) == PyFloorDiv(n + tpr - 1, tpr)

\* len(text.encode('utf-8')), text a sequence of code points
RECURSIVE Utf8Len(_)
Utf8Len(text) ==
    IF text = <<>> THEN 0
    ELSE (IF Head(text) < 128 THEN 1
          ELSE IF Head(text) < 2048 THEN 2
          ELSE IF Head(text) < 65536 THEN 3 ELSE 4) + Utf8Len(Tail(text))

\* "{}"
EmptyObject == <<123, 125>>

ZeroDivisionError(line) == [type |-> "ZeroDivisionError", line |-> line]

\* y where the token boxes start: lines 80-99
GridY == padding + 35 + 15 + 22 + Max(json_height, 20) + 25

Boxes_CompactsVisible(visible_tokens, tpr) ==
    [i \in 0..(Len(tokens) - 1) |->
        [x       |-> padding + Col(i, tpr) * token_spacing,
         y       |-> GridY + (IF i < visible_tokens THEN Row(i, tpr)
                              ELSE Row(i, tpr) + 1) * (token_box_height + row_gap),
         filled  |-> i < visible_tokens,
         newest  |-> i < visible_tokens /\ i = visible_tokens - 1]]

Boxes_HighlightsAllFilled(visible_tokens, tpr) ==
    [i \in 0..(Len(tokens) - 1) |->
        [x       |-> padding + Col(i, tpr) * token_spacing,
         y       |-> GridY + Row(i, tpr) * (token_box_height + row_gap),
         filled  |-> i < visible_tokens,
         newest  |-> i < visible_tokens]]

\* lines 110-151: the boxes of the token grid, by token index
Boxes(visible_tokens, tpr) ==
    [i \in 0..(Len(tokens) - 1) |->
        [x       |-> padding + Col(i, tpr) * token_spacing,
         y       |-> GridY + Row(i, tpr) * (token_box_height + row_gap),
         filled  |-> i < visible_tokens,
         newest  |-> i < visible_tokens /\ i = visible_tokens - 1]]

Placeholder == [kind |-> "placeholder"]

Stats_NoTokenGuard(visible_tokens, utf8_byte_count) ==
    IF utf8_byte_count > 0
    THEN IF visible_tokens = 0 THEN ZeroDivisionError(178)
         ELSE [kind |-> "ratio", bytes |-> utf8_byte_count, tokens |-> visible_tokens]
    ELSE Placeholder

Stats_NoByteGuard(visible_tokens, utf8_byte_count) ==
    IF visible_tokens > 0
    THEN [kind |-> "ratio", bytes |-> utf8_byte_count, tokens |-> visible_tokens]
    ELSE Placeholder

\* lines 177-181: the statistics text; the ratio is kept as the pair it is
\* computed from, ZeroDivisionError when the division raises
Stats(visible_tokens, utf8_byte_count) ==
    IF visible_tokens > 0 /\ utf8_byte_count > 0
    THEN IF visible_tokens = 0 THEN ZeroDivisionError(178)
         ELSE [kind |-> "ratio", bytes |-> utf8_byte_count, tokens |-> visible_tokens]
    ELSE Placeholder

\* line 188: the progress, as the pair it is computed from
Progress(visible_tokens) ==
    IF tokens # <<>>
    THEN IF Len(tokens) = 0 THEN ZeroDivisionError(188)
         ELSE [kind |-> "fraction", num |-> visible_tokens, den |-> Len(tokens)]
    ELSE [kind |-> "fraction", num |-> 0, den |-> 1]

IsError(v) == "type" \in DOMAIN v

\* create_frame: the frame it returns, or the error it raises
create_frame(visible_tokens, decoded_json, utf8_byte_count) ==
    LET tpr == tokens_per_row(width)
        stats == Stats(visible_tokens, utf8_byte_count)
        progress == Progress(visible_tokens)
    IN  IF tpr = 0 /\ tokens # <<>> THEN ZeroDivisionError(111)
        ELSE IF tpr = 0 THEN ZeroDivisionError(154)
        ELSE IF IsError(stats) THEN stats
        ELSE IF IsError(progress) THEN progress
        ELSE [visible_tokens  |-> visible_tokens,
              tokens_per_row  |-> tpr,
              boxes           |-> Boxes(visible_tokens, tpr),
              num_rows        |-> num_rows(Len(tokens), tpr),
              decoded         |-> IF decoded_json # <<>>
                                  THEN [kind |-> "json", text |-> decoded_json]
                                  ELSE [kind |-> "waiting"],
              utf8_byte_count |-> utf8_byte_count,
              stats           |-> stats,
              progress        |-> progress]

(* Inputs *)

\* most tokens of an enumerated token sequence
MaxTokens == 3

TokenIds == {17, 42}

\* the seven tokens of the end-to-end example
ExampleTokens == <<11, 12, 13, 14, 15, 16, 17>>

TokenLists == (UNION {[1..n -> TokenIds] : n \in 0..MaxTokens}) \cup {ExampleTokens}

\* what decode_prefix may return as text: "" and "{\u00e9}" (3 characters, 4 bytes)
DecodedTexts == {<<>>, <<123, 233, 125>>}

\* canvas widths: tokens_per_row is -1, 0, 1, 2 and 11
Widths == {40, 100, 106, 162, 700}

FrameDurations == {100, 800}

\* the heights draw_json_colored returns: one line, two lines
JsonHeights == {line_height, 2 * line_height}

AnimInit ==
    /\ pc = "idle"
    /\ json_str = <<>>
    /\ x = 0
    /\ y = 0
    /\ max_width = 0
    /\ idx = 1
    /\ in_string = FALSE
    /\ in_key = FALSE
    /\ escape_next = FALSE
    /\ current_text = <<>>
    /\ current_color = COLORS.text
    /\ segments = <<>>
    /\ branch = "none"
    /\ seg_idx = 1
    /\ cursor_x = 0
    /\ cursor_y = 0
    /\ drawn = <<>>
    /\ wrapped = <<>>
    /\ ret = 0
    /\ apc = "decode"
    /\ width \in Widths
    /\ frame_duration \in FrameDurations
    /\ json_height \in JsonHeights
    /\ tokens \in TokenLists
    /\ decoded_states = <<>>
    /\ decode_calls = <<>>
    /\ consumed = 0
    /\ frames = <<>>
    /\ frame_i = 1
    /\ output = NoFile
    /\ error = NoError

mainArgs == <<width, frame_duration, json_height, tokens>>

DecodePrefix_OffByOne ==
    /\ apc = "decode"
    /\ Len(decoded_states) < Len(tokens)
    /\ LET i == Len(decoded_states)
           prefix == SubSeq(tokens, 1, i)
       IN  /\ decode_calls' = Append(decode_calls, prefix)
           /\ \E decoded \in DecodedTexts :
                 decoded_states' = Append(decoded_states, <<decoded, tokens[i + 1]>>)
           /\ consumed' \in {Len(prefix), Len(prefix) + 1}
    /\ UNCHANGED <<apc, frames, frame_i, output, error, mainArgs, drawVars>>

\* lines 391-394: one iteration of main's loop, decode_prefix returning some
\* text and a consumed count that is the prefix length or, inconsistently,
\* more than it
DecodePrefix ==
    /\ apc = "decode"
    /\ Len(decoded_states) < Len(tokens)
    /\ LET i == Len(decoded_states)
           prefix == SubSeq(tokens, 1, i + 1)
       IN  /\ decode_calls' = Append(decode_calls, prefix)
           /\ \E decoded \in DecodedTexts :
                 decoded_states' = Append(decoded_states, <<decoded, tokens[i + 1]>>)
           /\ consumed' \in {Len(prefix), Len(prefix) + 1}
    /\ UNCHANGED <<apc, frames, frame_i, output, error, mainArgs, drawVars>>

DecodeRaises_PartialAnimation ==
    /\ apc = "decode"
    /\ Len(decoded_states) < Len(tokens)
    /\ decode_calls' = Append(decode_calls, SubSeq(tokens, 1, Len(decoded_states) + 1))
    /\ apc' = "initial"
    /\ error' = [type |-> "DecodeError", line |-> 393]
    /\ UNCHANGED <<decoded_states, consumed, frames, frame_i, output, mainArgs, drawVars>>

\* line 393: decode_prefix raising
DecodeRaises ==
    /\ apc = "decode"
    /\ Len(decoded_states) < Len(tokens)
    /\ decode_calls' = Append(decode_calls, SubSeq(tokens, 1, Len(decoded_states) + 1))
    /\ apc' = "crashed"
    /\ error' = [type |-> "DecodeError", line |-> 393]
    /\ UNCHANGED <<decoded_states, consumed, frames, frame_i, output, mainArgs, drawVars>>

\* lines 397, 301-305: the call of generate_animation
CallGenerate ==
    /\ apc = "decode"
    /\ Len(decoded_states) = Len(tokens)
    /\ apc' = "initial"
    /\ frames' = <<>>
    /\ UNCHANGED <<decoded_states, decode_calls, consumed, frame_i, output, error, mainArgs, drawVars>>

\* a frame is appended and the program goes on at `next`, or create_frame raises
AppendFrame(frame, next) ==
    IF IsError(frame)
    THEN /\ apc' = "crashed"
         /\ error' = frame
         /\ UNCHANGED frames
    ELSE /\ apc' = next
         /\ frames' = Append(frames, frame)
         /\ UNCHANGED error

\* lines 307-319
InitialFrame ==
    /\ apc = "initial"
    /\ AppendFrame(create_frame(0, <<>>, 0), "token_frames")
    /\ frame_i' = 1
    /\ UNCHANGED <<decoded_states, decode_calls, consumed, output, mainArgs, drawVars>>

TokenFrame_Unstable ==
    /\ apc = "token_frames"
    /\ frame_i <= Len(decoded_states)
    /\ LET i == frame_i - 1
           decoded == decoded_states[frame_i][1]
           decoded_bytes == IF decoded # <<>> THEN Utf8Len(decoded) ELSE 0
       IN  \E shown \in {i, i + 1} :
              AppendFrame(create_frame(shown,
                                       IF decoded # <<>> THEN decoded ELSE EmptyObject,
                                       decoded_bytes),
                          "token_frames")
    /\ frame_i' = frame_i + 1
    /\ UNCHANGED <<decoded_states, decode_calls, consumed, output, mainArgs, drawVars>>

\* lines 322-335: one iteration of the loop over decoded_states
TokenFrame ==
    /\ apc = "token_frames"
    /\ frame_i <= Len(decoded_states)
    /\ LET i == frame_i - 1
           decoded == decoded_states[frame_i][1]
           decoded_bytes == IF decoded # <<>> THEN Utf8Len(decoded) ELSE 0
       IN  AppendFrame(create_frame(i + 1,
                                    IF decoded # <<>> THEN decoded ELSE EmptyObject,
                                    decoded_bytes),
                       "token_frames")
    /\ frame_i' = frame_i + 1
    /\ UNCHANGED <<decoded_states, decode_calls, consumed, output, mainArgs, drawVars>>

FinalFrame_ReplacesLast ==
    /\ apc = "token_frames"
    /\ frame_i > Len(decoded_states)
    /\ apc' = "save"
    /\ frames' = frames
    /\ UNCHANGED <<error, frame_i, decoded_states, decode_calls, consumed, output, mainArgs, drawVars>>

\* lines 337-351
FinalFrame ==
    /\ apc = "token_frames"
    /\ frame_i > Len(decoded_states)
    /\ LET final_decoded == IF decoded_states # <<>>
                            THEN decoded_states[Len(decoded_states)][1]
                            ELSE EmptyObject
           final_bytes == IF final_decoded # <<>> THEN Utf8Len(final_decoded) ELSE 0
       IN  AppendFrame(create_frame(Len(tokens), final_decoded, final_bytes), "save")
    /\ UNCHANGED <<frame_i, decoded_states, decode_calls, consumed, output, mainArgs, drawVars>>

Durations_HoldFirst(n, d) == [k \in 1..n |-> IF k = 1 THEN d * final_hold ELSE d]

\* line 354
Durations(n, d) == [k \in 1..n |-> IF k = n THEN d * final_hold ELSE d]

\* lines 354-364
Save ==
    /\ apc = "save"
    /\ output' = [written   |-> TRUE,
                  frames    |-> frames,
                  durations |-> Durations(Len(frames), frame_duration),
                  loop      |-> 0]
    /\ apc' = "print"
    /\ UNCHANGED <<frames, frame_i, decoded_states, decode_calls, consumed, error, mainArgs, drawVars>>

\* lines 407-413
PrintSummary ==
    /\ apc = "print"
    /\ IF Len(tokens) = 0
       THEN apc' = "crashed" /\ error' = ZeroDivisionError(411)
       ELSE apc' = "exit0" /\ UNCHANGED error
    /\ UNCHANGED <<frames, frame_i, decoded_states, decode_calls, consumed, output, mainArgs, drawVars>>

AnimNext ==
    \/ DecodePrefix
    \/ DecodeRaises
    \/ CallGenerate
    \/ InitialFrame
    \/ TokenFrame
    \/ FinalFrame
    \/ Save
    \/ PrintSummary

SpecAnim == AnimInit /\ [][AnimNext]_vars

-----------------------------------------------------------------------------
(* Properties of draw_json_colored *)

RECURSIVE ConcatTexts(_)
ConcatTexts(segs) ==
    IF segs = <<>> THEN <<>> ELSE Head(segs).text \o ConcatTexts(Tail(segs))

ScanFinished == pc \in {"wrap", "done"}

HasAll(s, chars) == \A c \in chars : \E k \in 1..Len(s) : s[k] = c

\* C1: once the scan has finished, the texts of the segments it built,
\* concatenated in emission order, are exactly the input string; while it
\* runs, the segments followed by the open run are exactly the consumed prefix.
C1_RoundTrip ==
    /\ ScanFinished => ConcatTexts(segments) = json_str
    /\ pc = "scan" =>
         ConcatTexts(segments) \o current_text = SubSeq(json_str, 1, idx - 1)

\* C1 witness: a finished scan of a text mixing quotes, a backslash, brackets
\* and punctuation, split into several segments.
C1_Witness ==
    /\ ScanFinished
    /\ HasAll(json_str, {DQ, BS, "{", ":"})
    /\ Len(segments) >= 4

\* C2: classifying {"a":"b"} gives the first quoted run ("a") the Key colour
\* and the second ("b") the Value colour.
C2_KeyThenValue ==
    (ScanFinished /\ json_str = KeyValueExample) =>
        /\ Len(segments) = 5
        /\ segments[2] = [text |-> <<DQ, "a", DQ>>, color |-> COLORS.json_key]
        /\ segments[4] = [text |-> <<DQ, "b", DQ>>, color |-> COLORS.json_value]

\* the number of consecutive backslashes of s that end at position k
RECURSIVE BackslashRun(_, _)
BackslashRun(s, k) ==
    IF k >= 1 /\ s[k] = BS THEN 1 + BackslashRun(s, k - 1) ELSE 0

\* the character at position k directly follows an unescaped backslash
AfterUnescapedBackslash(s, k) == BackslashRun(s, k - 1) % 2 = 1

AtEscapedQuote ==
    /\ ScanStep
    /\ Char = DQ
    /\ AfterUnescapedBackslash(json_str, idx)

\* C3: a double quote that directly follows an unescaped backslash neither
\* opens nor closes a string and flushes nothing: the step that consumes it
\* only appends it to the open run. For {"a":"b\"c"} the fourth segment is the
\* whole run "b\"c", in the Value colour, ended by the final quote.
C3_EscapedQuote ==
    /\ [][AtEscapedQuote =>
            /\ in_string' = in_string
            /\ segments' = segments
            /\ current_color' = current_color
            /\ current_text' = Append(current_text, DQ)]_vars
    /\ []((ScanFinished /\ json_str = EscapeExample) =>
            /\ Len(segments) = 5
            /\ segments[4] = [text |-> <<DQ, "b", BS, DQ, "c", DQ>>,
                              color |-> COLORS.json_value])

\* C3 witness: the scan of {"a":"b\"c"} has just consumed the escaped quote
\* and is still inside the string.
C3_Witness ==
    /\ pc = "scan"
    /\ json_str = EscapeExample
    /\ idx = 10
    /\ in_string
    /\ current_text = <<DQ, "b", BS, DQ>>

\* the placements of ds, as a set of positions in ds
Placed(ds) == 1..Len(ds)

\* placement a is read before placement b: on a higher line, or on the same
\* line and further left
ReadBefore(ds, a, b) ==
    \/ ds[a].y < ds[b].y
    \/ ds[a].y = ds[b].y /\ ds[a].x < ds[b].x

\* the texts of the placements, read top line to bottom line and left to
\* right within a line
RECURSIVE ReadTexts(_, _)
ReadTexts(ds, S) ==
    IF S = {} THEN <<>>
    ELSE LET first == CHOOSE a \in S : \A b \in S \ {a} : ReadBefore(ds, a, b)
         IN  <<ds[first].text>> \o ReadTexts(ds, S \ {first})

\* no two placements are at the same position, so the reading order is total
DistinctPositions(ds) ==
    \A a, b \in Placed(ds) : a # b => (ReadBefore(ds, a, b) \/ ReadBefore(ds, b, a))

SegmentTexts(segs) == [k \in 1..Len(segs) |-> segs[k].text]

\* C8: the wrap loop places each segment exactly once and in input order:
\* no two placements share a position, and reading the placements top line
\* to bottom line and left to right gives the texts of the segments handled
\* so far (all of them, once the function has returned), in input order.
C8_WrapKeepsOrder ==
    /\ DistinctPositions(drawn)
    /\ DistinctPositions(drawn) =>
          ReadTexts(drawn, Placed(drawn))
             = SegmentTexts(SubSeq(segments, 1, seg_idx - 1))
    /\ pc = "done" => Len(drawn) = Len(segments)

\* C8 witness: the function has returned after placing at least three
\* segments on at least two lines.
C8_Witness ==
    /\ pc = "done"
    /\ Len(drawn) >= 3
    /\ \E a, b \in Placed(drawn) : drawn[a].y # drawn[b].y
    /\ \E a, b \in Placed(drawn) : a # b /\ drawn[a].y = drawn[b].y

Oversized(text) == text_width(text) > max_width

\* the cursor before placement k: where placement k - 1 ended
CursorBefore(ds, k) ==
    IF k = 1 THEN [x |-> x, y |-> y]
    ELSE [x |-> ds[k - 1].x + text_width(ds[k - 1].text), y |-> ds[k - 1].y]

\* C9: a segment wider than max_width is placed, once, with its text
\* unchanged: at the cursor when the line was not wrapped before it, at the
\* start of the next line (left margin + 20, one line_height down) when it
\* was; every iteration of the loop places exactly one segment.
C9_OversizedPlaced ==
    /\ Len(drawn) = seg_idx - 1
    /\ \A k \in 1..Len(drawn) :
          Oversized(segments[k].text) =>
             /\ drawn[k].text = segments[k].text
             /\ drawn[k].color = segments[k].color
             /\ IF wrapped[k]
                THEN /\ drawn[k].x = x + wrap_indent
                     /\ drawn[k].y = CursorBefore(drawn, k).y + line_height
                ELSE /\ drawn[k].x = CursorBefore(drawn, k).x
                     /\ drawn[k].y = CursorBefore(drawn, k).y

\* C9 witness: the function has returned after placing an oversized segment
\* at the left margin and another one after a wrap.
C9_Witness ==
    /\ pc = "done"
    /\ \E k \in 1..Len(drawn) :
          Oversized(drawn[k].text) /\ ~wrapped[k] /\ drawn[k].x = x
    /\ \E k \in 1..Len(drawn) : Oversized(drawn[k].text) /\ wrapped[k]

-----------------------------------------------------------------------------
(* Properties of generate_animation and create_frame *)

Visible(fs, k) == fs[k].visible_tokens

\* C4: the visible-token counts of the frames never decrease and start at 0;
\* in the written animation they end at len(tokens), the last frame's
\* duration is 3 times the per-frame duration and every earlier frame has
\* exactly the per-frame duration.
C4_Schedule ==
    /\ \A k \in 1..(Len(frames) - 1) : Visible(frames, k) <= Visible(frames, k + 1)
    /\ frames # <<>> => Visible(frames, 1) = 0
    /\ output.written =>
         /\ output.frames = frames
         /\ Visible(frames, Len(frames)) = Len(tokens)
         /\ Len(output.durations) = Len(frames)
         /\ output.durations[Len(frames)] = 3 * frame_duration
         /\ \A k \in 1..(Len(frames) - 1) : output.durations[k] = frame_duration

\* C4 witness: an animation of at least three tokens has been written.
C4_Witness ==
    /\ output.written
    /\ Len(tokens) >= 3
    /\ Visible(output.frames, 3) = 2

\* the number of frames of visible count 0 at the start of fs
RECURSIVE LeadingZeroFrames(_)
LeadingZeroFrames(fs) ==
    IF fs # <<>> /\ Head(fs).visible_tokens = 0
    THEN 1 + LeadingZeroFrames(Tail(fs))
    ELSE 0

\* the frames emitted before the per-token frames (lines 307-319)
leading_frames == 1

\* C5 as claimed: the written schedule has leadingFrames + len(tokens)
\* frames, leadingFrames being the number of zero-visibility frames emitted
\* first, and the last one carries the long hold.
C5_FrameCount_AsClaimed ==
    output.written =>
       /\ Len(output.frames) = LeadingZeroFrames(output.frames) + Len(tokens)
       /\ output.durations[Len(output.frames)] = final_hold * frame_duration

\* C5 as amended: the written schedule has 1 + len(tokens) + 1 frames (the
\* initial zero-visibility frame, one frame per token and the extra final
\* frame), 9 frames for 7 tokens, and only the last one carries the long hold.
C5_FrameCount ==
    output.written =>
       /\ Len(output.frames) = leading_frames + Len(tokens) + 1
       /\ Len(tokens) = 7 => Len(output.frames) = 9
       /\ Len(output.durations) = Len(output.frames)
       /\ \A k \in 1..Len(output.frames) :
             (output.durations[k] = 3 * frame_duration) <=> (k = Len(output.frames))

\* C5 witness: the animation of the seven example tokens has been written.
C5_Witness ==
    /\ output.written
    /\ tokens = ExampleTokens
    /\ Len(output.frames) = 9

\* C6: when the available width is smaller than the box spacing,
\* tokens_per_row is clamped to 1, so neither the row/column computation
\* (line 111) nor the row count (line 154) divides by zero.
C6_TokensPerRowClamped ==
    ~(error.type = "ZeroDivisionError" /\ error.line \in {111, 154})

\* C7: with tokens_per_row >= 1, the box of token i is at pixel offset
\* (column * 56, row * (28 + 8)) from the grid origin, where row and column
\* are the quotient and the remainder of i by tokens_per_row; the offset is
\* the same in every frame.
C7_GridPosition ==
    \A k \in 1..Len(frames) :
       frames[k].tokens_per_row >= 1 =>
          \A i \in DOMAIN frames[k].boxes :
             /\ \E row \in 0..i, col \in 0..(frames[k].tokens_per_row - 1) :
                   /\ row * frames[k].tokens_per_row + col = i
                   /\ frames[k].boxes[i].x - padding = col * 56
                   /\ frames[k].boxes[i].y - GridY = row * (28 + 8)
             /\ frames[k].boxes[i].x = frames[1].boxes[i].x
             /\ frames[k].boxes[i].y = frames[1].boxes[i].y

\* C7 witness: seven tokens drawn two per row; the box of token 5 is in
\* row 2, column 1.
C7_Witness ==
    /\ Len(tokens) = 7
    /\ Len(frames) >= 2
    /\ frames[2].tokens_per_row = 2
    /\ frames[2].boxes[5].x = padding + 56
    /\ frames[2].boxes[5].y = GridY + 2 * 36

\* C10: the statistics of a frame with no visible token never divide by
\* zero, and nor does the progress of a frame of an empty token list: the
\* frame shows the placeholder text (and a progress of 0).
C10_NoZeroDivisionInStats ==
    /\ ~(error.type = "ZeroDivisionError" /\ error.line \in {178, 188})
    /\ \A k \in 1..Len(frames) :
          /\ frames[k].visible_tokens = 0 => frames[k].stats = Placeholder
          /\ tokens = <<>> => (frames[k].progress.num = 0 /\ frames[k].progress.den # 0)

\* C10 witness: for an empty token list, the final frame was built with no
\* visible token and a byte count of 2.
C10_Witness ==
    /\ tokens = <<>>
    /\ Len(frames) = 2
    /\ frames[2].visible_tokens = 0
    /\ frames[2].utf8_byte_count = 2
    /\ frames[2].stats = Placeholder

\* C11: when decode_prefix raises, for whatever prefix, no frame is built and
\* no file is written; a frame is built only after every prefix was decoded.
C11_DecodeFailureWritesNothing ==
    /\ error.type = "DecodeError" => (frames = <<>> /\ output = NoFile)
    /\ (frames # <<>> \/ output # NoFile) =>
          /\ Len(decode_calls) = Len(tokens)
          /\ Len(decoded_states) = Len(tokens)

\* C11 witness: decode_prefix raised for the third prefix, after two
\* prefixes were decoded.
C11_Witness ==
    /\ apc = "crashed"
    /\ error.type = "DecodeError"
    /\ Len(decoded_states) = 2
    /\ Len(decode_calls) = 3
    /\ output = NoFile

\* what a frame displays below "Decoded JSON:" (lines 165-170)
Shown(decoded_json) ==
    IF decoded_json # <<>> THEN [kind |-> "json", text |-> decoded_json]
    ELSE [kind |-> "waiting"]

\* the schedule record of frame f held for duration d
ScheduleRecord(f, d) ==
    [visible |-> f.visible_tokens, decoded |-> f.decoded,
     bytes |-> f.utf8_byte_count, duration |-> d]

\* the schedule as a function of the tokens, the decoded states and the
\* per-frame duration alone
ScheduleOf(toks, states, d) ==
    LET n == Len(states)
        last == IF n > 0 THEN states[n][1] ELSE EmptyObject
    IN  [k \in 1..(n + 2) |->
           IF k = 1
           THEN [visible |-> 0, decoded |-> Shown(<<>>), bytes |-> 0, duration |-> d]
           ELSE IF k <= n + 1
           THEN [visible  |-> k - 1,
                 decoded  |-> Shown(IF states[k - 1][1] # <<>>
                                    THEN states[k - 1][1] ELSE EmptyObject),
                 bytes    |-> Utf8Len(states[k - 1][1]),
                 duration |-> d]
           ELSE [visible  |-> Len(toks),
                 decoded  |-> Shown(last),
                 bytes    |-> Utf8Len(last),
                 duration |-> 3 * d]]

\* C12: the written schedule, as records (visible count, decoded text, byte
\* count, duration), is a function of the tokens, the decoded states and the
\* per-frame duration alone: whatever else the run chose (canvas width, text
\* height, consumed counts), it is ScheduleOf(tokens, decoded_states,
\* frame_duration), so two runs with the same inputs write the same schedule.
C12_ScheduleDeterministic ==
    output.written =>
       [k \in 1..Len(output.frames) |->
           ScheduleRecord(output.frames[k], output.durations[k])]
          = ScheduleOf(tokens, decoded_states, frame_duration)

\* C12 witness: a schedule of three tokens, the first decoded to "" and the
\* last to a text, has been written.
C12_Witness ==
    /\ output.written
    /\ Len(tokens) = 3
    /\ decoded_states[1][1] = <<>>
    /\ decoded_states[3][1] # <<>>

FinalFrameBuilt == Len(frames) = Len(decoded_states) + 2

\* C13: the extra final frame is identical to the frame emitted before it
\* (the last per-token frame; the initial frame for an empty token list) in
\* every field: visible count, displayed decoded text, byte statistics.
C13_FinalFrameSameAsLast ==
    FinalFrameBuilt => frames[Len(frames)] = frames[Len(frames) - 1]

\* decode_prefix was called on exactly the first i tokens, for i = 1, 2, ...
DecodedInOrder ==
    \A i \in 1..Len(decode_calls) : decode_calls[i] = SubSeq(tokens, 1, i)

\* C14 as claimed: decode_prefix is called on the first i tokens, in
\* increasing i, and the frame of visible count i displays exactly the text
\* that call returned, also when it is the empty string.
C14_FrameShowsDecoded_AsClaimed ==
    /\ DecodedInOrder
    /\ \A i \in 1..Len(decoded_states) :
          i + 1 <= Len(frames) =>
             /\ frames[i + 1].visible_tokens = i
             /\ frames[i + 1].decoded = [kind |-> "json", text |-> decoded_states[i][1]]

\* C14 as amended: decode_prefix is called on the first i tokens, in
\* increasing i, and the per-token frame of visible count i displays the text
\* that call returned, an empty text being displayed as "{}".
C14_FrameShowsDecoded ==
    /\ DecodedInOrder
    /\ \A i \in 1..Len(decoded_states) :
          i + 1 <= Len(frames) =>
             /\ frames[i + 1].visible_tokens = i
             /\ frames[i + 1].decoded =
                   [kind |-> "json",
                    text |-> IF decoded_states[i][1] = <<>> THEN <<123, 125>>
                             ELSE decoded_states[i][1]]

\* C14 witness: the per-token frames of an empty and of a non-empty decoded
\* text have been built.
C14_Witness ==
    /\ Len(frames) >= 3
    /\ Len(decoded_states) >= 2
    /\ decoded_states[1][1] = <<>>
    /\ decoded_states[2][1] # <<>>
    /\ frames[2].decoded.text = <<123, 125>>
    /\ frames[3].decoded.text = decoded_states[2][1]

\* the ratio bytes / tokens, as the statistics text carries it
Ratio(bytes, toks) == [kind |-> "ratio", bytes |-> bytes, tokens |-> toks]

\* the byte count of per-token frame k (k >= 2) is that of the text
\* decode_prefix returned for the prefix of length k - 1
ByteCountOfDecoded ==
    \A k \in 2..Len(frames) :
       k <= Len(decoded_states) + 1 =>
          frames[k].utf8_byte_count = Utf8Len(decoded_states[k - 1][1])

\* C15 as claimed: a frame shows the ratio byteLength(decodedText) /
\* visibleTokenCount exactly when its visible count is above 0, and the
\* placeholder exactly when it is 0 (so a ratio of 0 for an empty text).
C15_RatioIffVisible_AsClaimed ==
    /\ ByteCountOfDecoded
    /\ \A k \in 1..Len(frames) :
          frames[k].stats =
             IF frames[k].visible_tokens > 0
             THEN Ratio(frames[k].utf8_byte_count, frames[k].visible_tokens)
             ELSE Placeholder

\* C15 as amended: a frame shows the ratio exactly when its visible count
\* and its byte count are both above 0, and the placeholder otherwise; a
\* frame with visible tokens and an empty decoded text shows the placeholder.
C15_RatioIffVisible ==
    /\ ByteCountOfDecoded
    /\ \A k \in 1..Len(frames) :
          frames[k].stats =
             IF frames[k].visible_tokens > 0 /\ frames[k].utf8_byte_count > 0
             THEN Ratio(frames[k].utf8_byte_count, frames[k].visible_tokens)
             ELSE Placeholder

\* C15 witness: a frame with one visible token and an empty decoded text
\* shows the placeholder, the next frame shows the ratio 4 / 2.
C15_Witness ==
    /\ Len(frames) >= 3
    /\ Len(decoded_states) >= 2
    /\ decoded_states[1][1] = <<>>
    /\ frames[2].stats = Placeholder
    /\ frames[3].stats = Ratio(4, 2)

\* the last decode_prefix call returned a consumed count larger than the
\* length of the prefix it was given
InconsistentDecode == consumed > Len(decoded_states)

\* C16: when decode_prefix returns inconsistent data (a consumed count above
\* the prefix length), schedule construction aborts: no frame is built and
\* no file is written.
C16_InconsistentDecodeAborts ==
    InconsistentDecode => (frames = <<>> /\ output = NoFile)

-----------------------------------------------------------------------------
(* Further properties of draw_json_colored *)

\* C17: brackets split the run only outside a string; between an opening
\* quote and its closing quote nothing is flushed, so while the scanner is
\* inside a string the open run starts at the opening quote and carries the
\* Key/Value colour chosen there, and no bracket segment was just emitted.
C17_StringIsOneSegment ==
    (pc = "scan" /\ in_string) =>
       /\ branch # "bracket"
       /\ current_text # <<>>
       /\ current_text[1] = DQ
       /\ current_color = IF in_key THEN COLORS.json_key ELSE COLORS.json_value

\* the positions of rest that hold c and do not follow an unescaped backslash
UnescapedAt(rest, c) ==
    {k \in 1..Len(rest) : rest[k] = c /\ BackslashRun(rest, k - 1) % 2 = 0}

Least(S) == CHOOSE k \in S : \A j \in S : k <= j

\* the reference rule: Key iff an unescaped ':' exists and comes before the
\* next unescaped '"', or no further unescaped '"' exists
RefIsKey(rest) ==
    LET colons == UnescapedAt(rest, ":")
        quotes == UnescapedAt(rest, DQ)
    IN  colons # {} /\ (quotes = {} \/ Least(colons) < Least(quotes))

\* C18: at each opening quote the Key/Value decision equals the reference
\* rule over the remainder of the input after that quote, escaped colons and
\* quotes not counted.
C18_KeyDecisionIsReference ==
    (pc = "scan" /\ branch = "open") =>
       in_key = RefIsKey(SubSeq(json_str, idx, Len(json_str)))

\* the lines the placements are on
LinesOf(ds) == {ds[k].y : k \in 1..Len(ds)}

\* the number of wraps the loop performed
Wraps == Cardinality({k \in 1..Len(wrapped) : wrapped[k]})

\* C20: the returned value is the final cursor_y (from the top y) plus
\* line_height, which is line_height times (1 + number of wraps), that is
\* line_height per line used, and line_height for no segment at all.
C20_ReturnedHeight ==
    pc = "done" =>
       /\ ret = (cursor_y - y) + line_height
       /\ ret = line_height * (1 + Wraps)
       /\ ret = line_height * (IF drawn = <<>> THEN 1 ELSE Cardinality(LinesOf(drawn)))
       /\ segments = <<>> => ret = line_height

\* C20 witness: the function has returned after two wraps, and so 3 * 18.
C20_Witness ==
    /\ pc = "done"
    /\ Wraps = 2
    /\ ret = 54

-----------------------------------------------------------------------------
(* Further properties of create_frame *)

\* the least integer that is at least n / t, for t # 0
CeilDiv(n, t) == 0 - PyFloorDiv(0 - n, t)

\* C19: the number of rows reserved below the token header is
\* ceil(N / tokens_per_row) for N tokens (0 for none), and every token box
\* is in a row above the end of the reserved area.
C19_RowsReserved ==
    \A k \in 1..Len(frames) :
       /\ frames[k].num_rows =
             IF Len(tokens) = 0 THEN 0
             ELSE CeilDiv(Len(tokens), frames[k].tokens_per_row)
       /\ \A i \in DOMAIN frames[k].boxes :
             frames[k].boxes[i].y
                < GridY + frames[k].num_rows * (token_box_height + row_gap)

-----------------------------------------------------------------------------
(* Further properties of the token grid across the frames of one run *)

\* the geometry of a frame: where each token box is, and the rows reserved
Geometry(f) ==
    [boxes    |-> [i \in DOMAIN f.boxes |-> [x |-> f.boxes[i].x, y |-> f.boxes[i].y]],
     num_rows |-> f.num_rows]

\* C21: the visible-token count of a frame selects only the style of the
\* token boxes (box i is filled exactly when i < visible count) and never the
\* geometry: the position of every box and the number of rows reserved are
\* the same in all frames of one run.
C21_GeometryFixed ==
    \A k \in 1..Len(frames) :
       /\ Geometry(frames[k]) = Geometry(frames[1])
       /\ DOMAIN frames[k].boxes = 0..(Len(tokens) - 1)
       /\ \A i \in DOMAIN frames[k].boxes :
             frames[k].boxes[i].filled <=> i < frames[k].visible_tokens

\* C21 witness: a run with three frames of different visible counts whose
\* boxes take more than one row, the first box empty in one frame and filled
\* in another.
C21_Witness ==
    /\ Len(frames) >= 3
    /\ Len(tokens) >= 2
    /\ frames[1].num_rows >= 2
    /\ frames[1].visible_tokens # frames[2].visible_tokens
    /\ frames[2].visible_tokens # frames[3].visible_tokens
    /\ ~frames[1].boxes[0].filled
    /\ frames[2].boxes[0].filled

-----------------------------------------------------------------------------
(* Further properties of the wrap loop of draw_json_colored *)

\* the right bound of the drawing area
RightBound == x + max_width

\* C22: before placing a segment the loop starts a new line exactly when the
\* cursor plus the segment's width is beyond the right bound and the cursor is
\* past the left margin; the new line is at left margin + 20, one line_height
\* down, and without a new line the segment is placed at the cursor. So the
\* line never goes up from one placement to the next, the placement before a
\* wrap is on the line the wrap leaves, and every line from the first to the
\* cursor's holds a placement.
C22_WrapRule ==
    pc \in {"wrap", "done"} =>
       /\ \A k \in 1..Len(drawn) :
             LET c == CursorBefore(drawn, k)
                 w == text_width(drawn[k].text)
             IN  /\ wrapped[k] <=> (c.x + w > RightBound /\ c.x > x)
                 /\ wrapped[k] =>
                       /\ drawn[k].x = x + 20
                       /\ drawn[k].y = c.y + line_height
                       /\ k > 1
                       /\ drawn[k - 1].y = c.y
                 /\ ~wrapped[k] => (drawn[k].x = c.x /\ drawn[k].y = c.y)
                 /\ drawn[k].y >= c.y
       /\ drawn # <<>> =>
             LinesOf(drawn) = {y + j * line_height : j \in 0..Wraps}
       /\ cursor_y = y + Wraps * line_height

\* C22 witness: two wraps have happened, the second one for a segment that
\* starts a line of its own right after the line of the first.
C22_Witness ==
    /\ pc = "done"
    /\ Len(drawn) >= 3
    /\ ~wrapped[1]
    /\ \E k \in 2..(Len(drawn) - 1) : wrapped[k] /\ wrapped[k + 1]
    /\ \E k \in 2..Len(drawn) : ~wrapped[k]

-----------------------------------------------------------------------------
(* Further properties of the scan of draw_json_colored *)

\* the positions of s that hold a quote no unescaped backslash precedes
UnescapedQuotes(s) ==
    {k \in 1..Len(s) : s[k] = DQ /\ ~AfterUnescapedBackslash(s, k)}

\* the input ends inside a string: its unescaped quotes are odd in number
EndsInString(s) == Cardinality(UnescapedQuotes(s)) % 2 = 1

\* the greatest element of a non-empty set of integers
Greatest(S) == CHOOSE m \in S : \A n \in S : n <= m

\* C23: for an input that ends inside an unterminated string, the last
\* segment of the scan is the text from the last opening quote to the end of
\* the input, in the Key or Value colour chosen at that quote, never the
\* colour of plain text.
C23_TrailingRunKeepsClass ==
    (ScanFinished /\ EndsInString(json_str)) =>
       LET open == Greatest(UnescapedQuotes(json_str))
           tail == SubSeq(json_str, open, Len(json_str))
       IN  /\ segments # <<>>
           /\ segments[Len(segments)].text = tail
           /\ segments[Len(segments)].color =
                 IF IsKey(SubSeq(json_str, open + 1, Len(json_str)))
                 THEN COLORS.json_key ELSE COLORS.json_value

\* the scan reads a ':' or a ','
ReadsPunctuation == ScanStep /\ Char \in {":", ","}

\* the character read is emitted as a Punctuation segment of its own: the
\* current run, when there is one, is closed before it, and none is open
\* after it
EmittedAsPunctuation ==
    /\ segments' =
          (IF current_text = <<>> THEN segments
           ELSE Append(segments, [text |-> current_text, color |-> current_color]))
          \o <<[text |-> <<Char>>, color |-> COLORS.text_dim]>>
    /\ current_text' = <<>>

\* the character read is appended to the current run, which is neither
\* closed nor given another class
AppendedToRun ==
    /\ segments' = segments
    /\ current_text' = Append(current_text, Char)
    /\ current_color' = current_color

\* C24 as claimed: a ':' or ',' is emitted as a Punctuation segment of its
\* own exactly when the scan is outside a string, and inside a string it is
\* appended to the run.
C24_PunctuationOutsideString_AsClaimed ==
    [][ReadsPunctuation =>
          IF ~in_string THEN EmittedAsPunctuation ELSE AppendedToRun]_vars

\* C24: a ':' or ',' that does not directly follow an unescaped backslash is
\* emitted as a Punctuation segment of its own exactly when the scan is
\* outside a string; inside a string, or directly after an unescaped
\* backslash, it is appended to the current run, which is neither closed nor
\* given another class.
C24_PunctuationOutsideString ==
    [][ReadsPunctuation =>
          IF ~in_string /\ ~AfterUnescapedBackslash(json_str, idx)
          THEN EmittedAsPunctuation ELSE AppendedToRun]_vars

\* C24 witness: a ',' outside a string was emitted as a Punctuation segment,
\* and a ':' inside the string after it was appended to the string's run.
C24_Witness ==
    /\ pc = "scan"
    /\ in_string
    /\ segments # <<>>
    /\ segments[Len(segments)] = [text |-> <<",">>, color |-> COLORS.text_dim]
    /\ Len(current_text) >= 2
    /\ current_text[1] = DQ
    /\ current_text[Len(current_text)] = ":"
    /\ branch = "other"

-----------------------------------------------------------------------------
(* Further properties of the token grid *)

\* the width left for token boxes between the two paddings
AvailableWidth == width - 2 * padding

\* C25: when tokens_per_row is at least 1, no two token indices get the same
\* (row, column) cell or the same box position, every column is in
\* 0..tokens_per_row - 1, and so every box starts at or before the last
\* column that fits in the available width.
C25_GridInjective ==
    \A k \in 1..Len(frames) :
       LET f == frames[k]
           t == f.tokens_per_row
       IN  t >= 1 =>
             /\ \A i, j \in DOMAIN f.boxes :
                   i # j =>
                      /\ <<i \div t, i % t>> # <<j \div t, j % t>>
                      /\ <<f.boxes[i].x, f.boxes[i].y>> # <<f.boxes[j].x, f.boxes[j].y>>
             /\ \A i \in DOMAIN f.boxes :
                   /\ f.boxes[i].x = padding + (i % t) * token_spacing
                   /\ (i % t) \in 0..(t - 1)
                   /\ f.boxes[i].x >= padding
                   /\ f.boxes[i].x + token_spacing <= padding + AvailableWidth

\* C25 witness: a frame of three or more tokens in rows of two, so that two
\* boxes share a column and two share a row.
C25_Witness ==
    /\ Len(frames) >= 1
    /\ frames[1].tokens_per_row = 2
    /\ Len(tokens) >= 3
    /\ frames[1].boxes[0].x = frames[1].boxes[2].x
    /\ frames[1].boxes[0].y = frames[1].boxes[1].y

-----------------------------------------------------------------------------
(* Where a placed segment can cross the right bound *)

\* placement k ends beyond the right bound of the drawing area
Overflows(k) == drawn[k].x + text_width(drawn[k].text) > x + max_width

\* C26: a placed segment ends beyond the right bound (left margin +
\* max_width) only if it is wider than max_width - 20; one placed without a
\* wrap that does so is at the left margin and wider than max_width; and a
\* segment placed after a wrap starts at left margin + 20.
C26_OverflowOnlyWhenTooWide ==
    \A k \in 1..Len(drawn) :
       LET w == text_width(drawn[k].text)
       IN  /\ Overflows(k) => w > max_width - 20
           /\ (Overflows(k) /\ ~wrapped[k]) => (drawn[k].x = x /\ w > max_width)
           /\ wrapped[k] => drawn[k].x = x + 20

\* C26 witness: three ways a segment was placed in one call: one that ends
\* beyond the right bound from the left margin, one that does so after a
\* wrap, and one after a wrap that fits.
C26_Witness ==
    \E i, j, k \in 1..Len(drawn) :
       /\ Overflows(i) /\ ~wrapped[i]
       /\ Overflows(j) /\ wrapped[j]
       /\ ~Overflows(k) /\ wrapped[k]

-----------------------------------------------------------------------------
(* The newest-token highlight *)

\* the indices of the boxes of frame f that have the newest-token highlight
Highlighted(f) == {i \in DOMAIN f.boxes : f.boxes[i].newest}

\* C27: in every frame at most one box has the newest-token highlight: the
\* box of index visible_tokens - 1, which is a filled box, and none when
\* visible_tokens is 0; and the per-token frames, which follow the initial
\* frame, highlight the indices 0, 1, ..., len(tokens) - 1 in this order, one
\* further per frame.
C27_NewestHighlight ==
    /\ \A k \in 1..Len(frames) :
          LET f == frames[k]
          IN  /\ Cardinality(Highlighted(f)) <= 1
              /\ Highlighted(f) =
                    IF f.visible_tokens = 0 THEN {} ELSE {f.visible_tokens - 1}
              /\ \A i \in Highlighted(f) : f.boxes[i].filled
    /\ \A k \in 2..Len(frames) :
          k <= Len(tokens) + 1 =>
             /\ Highlighted(frames[k]) = {k - 2}
             /\ k > 2 => \A i \in Highlighted(frames[k - 1]) :
                            Highlighted(frames[k]) = {i + 1}
    /\ apc \in {"print", "exit0"} => Len(frames) >= Len(tokens) + 1

\* C27 witness: a finished run of three tokens whose per-token frames
\* highlighted box 0, then box 1, then box 2, after an initial frame with no
\* highlight.
C27_Witness ==
    /\ apc = "exit0"
    /\ Len(tokens) = 3
    /\ Len(frames) >= 4
    /\ Highlighted(frames[1]) = {}
    /\ Highlighted(frames[2]) = {0}
    /\ Highlighted(frames[3]) = {1}
    /\ Highlighted(frames[4]) = {2}

-----------------------------------------------------------------------------
(* The escape flag *)

\* "\\"  (a string that ends with two backslashes)
TwoBackslashes == <<DQ, BS, BS, DQ>>

\* C28: the escape flag is set exactly while the character to read directly
\* follows an unescaped backslash: the character after the backslash that set
\* it consumes it, a backslash included, and it is never still set two
\* characters after that backslash. So in "\\" the closing quote is not
\* escaped: it closes the string, which is one Value segment.
C28_EscapeConsumedOnce ==
    /\ pc = "scan" =>
          /\ escape_next <=> AfterUnescapedBackslash(json_str, idx)
          /\ (idx >= 3 /\ escape_next) =>
                ~(json_str[idx - 2] = BS /\ ~AfterUnescapedBackslash(json_str, idx - 2))
    /\ (ScanFinished /\ json_str = TwoBackslashes) =>
          /\ ~in_string
          /\ ~escape_next
          /\ segments = <<[text |-> TwoBackslashes, color |-> COLORS.json_value]>>

\* C28 witness: the scan of "\\" has read the second backslash, which
\* consumed the flag the first one set, and is at the closing quote with the
\* flag cleared.
C28_Witness ==
    /\ pc = "scan"
    /\ json_str = TwoBackslashes
    /\ idx = 4
    /\ branch = "escaped"
    /\ ~escape_next
    /\ in_string

====
